---- MODULE Spec2Model ----
(***************************************************************************)
(* BaseEmulatorController (src/pyclashbot/emulators/base.py).              *)
(*                                                                         *)
(* Two threads share one controller object: the automation thread, which   *)
(* runs _wait_for_clash_installation statement by statement, and the UI    *)
(* thread, which runs _retry_installation_check when the user activates    *)
(* the temporary "Retry" action.  The destructor __del__ runs once the     *)
(* object is no longer referenced.  Program counters are named after the   *)
(* source line the thread is about to execute.                             *)
(***************************************************************************)
EXTENDS Naturals, Sequences, FiniteSets

(* ---------------------------------------------------------------- bounds *)
\* number of _wait_for_clash_installation calls made on the controller
MaxWaits == 2
\* number of retry-callback invocations during one wait
MaxRetries == 3

(* ------------------------------------------------------------- constants *)
DefaultPackage == "com.supercell.clashroyale"
Packages == {DefaultPackage, "com.example.app"}
Unset == "unset"
\* values an owner may store in _auto_stop_on_del, besides leaving it unset
AutoStopValues == {Unset, "True", "False", "None"}
\* Python truthiness of the stored values
Truthy(v) == v \notin {"False", "None"}
\* subclasses of Exception that stop() may raise
StopErrors == {"NotImplementedError", "RuntimeError"}
\* interface operations a concrete backend may or may not override
Overridable == {"__init__", "start", "stop", "_is_package_installed"}
\* the interface operations the automation thread calls on the controller
CallableOps == Overridable \ {"__init__"}
RetryCallback == "_retry_installation_check"
NoAction == [message |-> "none", package |-> "none", action_text |-> "none", callback |-> "none"]
TemporaryAction(m, p) == [message |-> m, package |-> p, action_text |-> "Retry", callback |-> RetryCallback]

VARIABLES
    \* the controller object
    current_package_name,   \* attribute, Unset until line 119 assigns it
    installation_waiting,   \* attribute, the shared flag
    auto_stop_on_del,       \* attribute _auto_stop_on_del, Unset unless the owner set it
    implemented,            \* the operations the concrete backend overrides
    \* the emulator
    installed,              \* the packages installed on it
    \* the logger / UI collaborator
    action,                 \* the temporary action on display, or NoAction
    status,                 \* the last status text
    waiterLog,              \* log lines written by the current wait call
    \* the automation thread in _wait_for_clash_installation
    pc,                     \* "idle" or the line about to run
    package_name,           \* the argument of the current call
    lastResult,             \* what the last finished call gave its caller
    waitsStarted,           \* calls made so far
    activeWaits,            \* calls in progress (frames of the function)
    curOp,                  \* the interface operation the thread is calling, or "none"
    previousPackage,        \* the argument of the call before the current one
    waitShown,              \* temporary actions registered by the current wait call
    \* the UI thread in _retry_installation_check
    cbPc,                   \* "idle" or the line about to run
    cbPackage,              \* local package_name of the callback
    cbOrigin,               \* "prompt" or "direct": who invoked the callback
    cbError,                \* the exception that ended the last callback, or "none"
    cbResult,               \* what the callback's query returned, or "none"
    cbSawUnset,             \* line 142 found no current_package_name attribute
    cbCount,                \* callback invocations during the current wait
    cbShown,                \* temporary actions registered by the current callback
    cbStillLogs,            \* "still not installed" lines logged by the current callback
    outcomes,               \* results of the queries made during the current wait
    observedTrue,           \* packages a callback saw installed during the current wait
    clearedBy,              \* packages whose callback cleared the flag during the current wait
    \* the destructor
    delPc,                  \* "alive", "L33", "L34" or "done"
    stopCalls,              \* stop() calls made by __del__
    stopRaised,             \* the exception stop() raised, or "none"
    delOutcome              \* "none", "normal" or the exception leaving __del__

ctrlVars == <<current_package_name, installation_waiting, auto_stop_on_del, implemented>>
uiVars == <<action, status, waiterLog>>
waitVars == <<pc, package_name, lastResult, waitsStarted, activeWaits, curOp, previousPackage, waitShown>>
cbVars == <<cbPc, cbPackage, cbOrigin, cbError, cbResult, cbSawUnset, cbCount, cbShown, cbStillLogs>>
histVars == <<outcomes, observedTrue, clearedBy>>
delVars == <<delPc, stopCalls, stopRaised, delOutcome>>
vars == <<ctrlVars, installed, uiVars, waitVars, cbVars, histVars, delVars>>

(* ------------------------------------------------------------------ Init *)
\* An object of a concrete subclass has been allocated and __init__ is about
\* to run; the subclass sets logger and installation_waiting, never
\* current_package_name; _auto_stop_on_del may be set (a class attribute).
Init ==
    /\ current_package_name = Unset
    /\ installation_waiting = FALSE
    /\ auto_stop_on_del \in AutoStopValues
    /\ implemented \in SUBSET Overridable
    /\ installed = {}
    /\ action = NoAction
    /\ status = "none"
    /\ waiterLog = <<>>
    /\ pc = "unborn"
    /\ package_name = "none"
    /\ curOp = "none"
    /\ previousPackage = "none"
    /\ waitShown = 0
    /\ lastResult = "none"
    /\ waitsStarted = 0
    /\ activeWaits = 0
    /\ cbPc = "idle"
    /\ cbPackage = "none"
    /\ cbOrigin = "none"
    /\ cbError = "none"
    /\ cbResult = "none"
    /\ cbSawUnset = FALSE
    /\ cbCount = 0
    /\ cbShown = 0
    /\ cbStillLogs = 0
    /\ outcomes = <<>>
    /\ observedTrue = {}
    /\ clearedBy = {}
    /\ delPc = "alive"
    /\ stopCalls = 0
    /\ stopRaised = "none"
    /\ delOutcome = "none"

(* -------------------------------------------------------------- emulator *)
\* the user installs or removes a package in the emulator
Install(p) ==
    /\ delPc = "alive"
    /\ p \notin installed
    /\ installed' = installed \cup {p}
    /\ UNCHANGED <<ctrlVars, uiVars, waitVars, cbVars, histVars, delVars>>

Uninstall(p) ==
    /\ delPc = "alive"
    /\ p \in installed
    /\ installed' = installed \ {p}
    /\ UNCHANGED <<ctrlVars, uiVars, waitVars, cbVars, histVars, delVars>>

(* ------------------------------------------- construction, interface ops *)
\* lines 26-27: __init__ raises NotImplementedError unless the subclass overrides it
Construct ==
    /\ pc = "unborn"
    /\ pc' = IF "__init__" \in implemented THEN "idle" ELSE "failed"
    /\ UNCHANGED <<ctrlVars, installed, uiVars, cbVars, histVars, delVars>>
    /\ UNCHANGED <<package_name, lastResult, waitsStarted, activeWaits, curOp, previousPackage, waitShown>>

\* lines 38-115: the body of every interface stub is raise NotImplementedError
StubPasses(op) == "returned"
StubBody(op) == "NotImplementedError"

\* what a call of op does: the backend's override, or the stub
OpOutcome(op) == IF op \in implemented THEN "returned" ELSE StubBody(op)

\* the automation thread calls an interface operation
CallOp(op) ==
    /\ delPc = "alive"
    /\ pc = "idle"
    /\ pc' = "op"
    /\ curOp' = op
    /\ UNCHANGED <<ctrlVars, installed, uiVars, cbVars, histVars, delVars>>
    /\ UNCHANGED <<package_name, lastResult, waitsStarted, activeWaits, previousPackage, waitShown>>

\* the operation returns or raises
OpBody ==
    /\ pc = "op"
    /\ pc' = IF OpOutcome(curOp) = "returned" THEN "opReturned" ELSE "opRaised"
    /\ UNCHANGED <<ctrlVars, installed, uiVars, cbVars, histVars, delVars>>
    /\ UNCHANGED <<package_name, lastResult, waitsStarted, activeWaits, curOp, previousPackage, waitShown>>

\* the caller has its answer and goes on
OpDone ==
    /\ pc \in {"opReturned", "opRaised"}
    /\ pc' = "idle"
    /\ curOp' = "none"
    /\ UNCHANGED <<ctrlVars, installed, uiVars, cbVars, histVars, delVars>>
    /\ UNCHANGED <<package_name, lastResult, waitsStarted, activeWaits, previousPackage, waitShown>>

OpStep == Construct \/ OpBody \/ OpDone \/ \E op \in CallableOps : CallOp(op)

(* ------------------------------------------ _wait_for_clash_installation *)
\* the automation thread calls the function; a thread runs one call at a time
Call(p) ==
    /\ delPc = "alive"
    /\ pc = "idle"
    /\ waitsStarted < MaxWaits
    /\ pc' = "L119"
    /\ package_name' = p
    /\ lastResult' = "none"
    /\ waitsStarted' = waitsStarted + 1
    /\ activeWaits' = activeWaits + 1
    /\ previousPackage' = package_name
    /\ waitShown' = 0
    /\ UNCHANGED curOp
    /\ waiterLog' = <<>>
    /\ cbCount' = 0
    /\ outcomes' = <<>>
    /\ observedTrue' = {}
    /\ clearedBy' = {}
    /\ UNCHANGED <<ctrlVars, installed, action, status, delVars>>
    /\ UNCHANGED <<cbPc, cbPackage, cbOrigin, cbError, cbResult, cbSawUnset, cbShown, cbStillLogs>>

\* line 119: self.current_package_name = package_name
\* (variants: one that stores the default package, one that records nothing)
WaitL119StoresDefault ==
    /\ pc = "L119"
    /\ current_package_name' = DefaultPackage
    /\ pc' = "L120"
    /\ UNCHANGED <<installation_waiting, auto_stop_on_del, implemented, installed, uiVars>>
    /\ UNCHANGED <<package_name, lastResult, waitsStarted, activeWaits, curOp, previousPackage, waitShown, cbVars, histVars, delVars>>

WaitL119NoRecord ==
    /\ pc = "L119"
    /\ pc' = "L120"
    /\ UNCHANGED <<ctrlVars, installed, uiVars>>
    /\ UNCHANGED <<package_name, lastResult, waitsStarted, activeWaits, curOp, previousPackage, waitShown, cbVars, histVars, delVars>>

WaitL119 ==
    /\ pc = "L119"
    /\ current_package_name' = package_name
    /\ pc' = "L120"
    /\ UNCHANGED <<installation_waiting, auto_stop_on_del, implemented, installed, uiVars>>
    /\ UNCHANGED <<package_name, lastResult, waitsStarted, activeWaits, curOp, previousPackage, waitShown, cbVars, histVars, delVars>>

\* lines 120-124: self.logger.show_temporary_action(...)
WaitL120 ==
    /\ pc = "L120"
    /\ action' = TemporaryAction("not installed", package_name)
    /\ waitShown' = waitShown + 1
    /\ pc' = "L126"
    /\ UNCHANGED <<ctrlVars, installed, status, waiterLog>>
    /\ UNCHANGED <<package_name, lastResult, waitsStarted, activeWaits, curOp, previousPackage, cbVars, histVars, delVars>>

\* line 126: self.logger.log("[!] ... not installed.")
WaitL126 ==
    /\ pc = "L126"
    /\ waiterLog' = Append(waiterLog, "not installed")
    /\ pc' = "L127"
    /\ UNCHANGED <<ctrlVars, installed, action, status>>
    /\ UNCHANGED <<package_name, lastResult, waitsStarted, activeWaits, curOp, previousPackage, waitShown, cbVars, histVars, delVars>>

\* line 127: self.logger.log("Please install it ... then click Retry in the GUI")
\* (a variant that leaves the line out)
WaitL127NoLog ==
    /\ pc = "L127"
    /\ pc' = "L130"
    /\ UNCHANGED <<ctrlVars, installed, uiVars>>
    /\ UNCHANGED <<package_name, lastResult, waitsStarted, activeWaits, curOp, previousPackage, waitShown, cbVars, histVars, delVars>>

WaitL127 ==
    /\ pc = "L127"
    /\ waiterLog' = Append(waiterLog, "please install")
    /\ pc' = "L130"
    /\ UNCHANGED <<ctrlVars, installed, action, status>>
    /\ UNCHANGED <<package_name, lastResult, waitsStarted, activeWaits, curOp, previousPackage, waitShown, cbVars, histVars, delVars>>

\* line 130: self.installation_waiting = True
WaitL130 ==
    /\ pc = "L130"
    /\ installation_waiting' = TRUE
    /\ pc' = "L131"
    /\ UNCHANGED <<current_package_name, auto_stop_on_del, implemented, installed, uiVars>>
    /\ UNCHANGED <<package_name, lastResult, waitsStarted, activeWaits, curOp, previousPackage, waitShown, cbVars, histVars, delVars>>

\* line 131: while self.installation_waiting
LoopContinues(w) == w

\* (a variant that polls the backend itself, so that its error reaches the caller)
WaitL131QueriesBackend ==
    /\ pc = "L131"
    /\ LET r == IF "_is_package_installed" \in implemented THEN "ok" ELSE "NotImplementedError" IN
        IF r = "ok"
        THEN /\ pc' = IF LoopContinues(installation_waiting) THEN "L132" ELSE "L134"
             /\ UNCHANGED <<lastResult, activeWaits>>
        ELSE /\ pc' = "idle"
             /\ lastResult' = r
             /\ activeWaits' = activeWaits - 1
    /\ UNCHANGED <<ctrlVars, installed, uiVars>>
    /\ UNCHANGED <<package_name, waitsStarted, curOp, previousPackage, waitShown, cbVars, histVars, delVars>>

WaitL131 ==
    /\ pc = "L131"
    /\ pc' = IF LoopContinues(installation_waiting) THEN "L132" ELSE "L134"
    /\ UNCHANGED <<ctrlVars, installed, uiVars>>
    /\ UNCHANGED <<package_name, lastResult, waitsStarted, activeWaits, curOp, previousPackage, waitShown, cbVars, histVars, delVars>>

\* line 132: time.sleep(0.5)
WaitL132 ==
    /\ pc = "L132"
    /\ pc' = "L131"
    /\ UNCHANGED <<ctrlVars, installed, uiVars>>
    /\ UNCHANGED <<package_name, lastResult, waitsStarted, activeWaits, curOp, previousPackage, waitShown, cbVars, histVars, delVars>>

\* line 134: self.logger.log("[+] Installation confirmed, continuing...")
WaitL134 ==
    /\ pc = "L134"
    /\ waiterLog' = Append(waiterLog, "confirmed")
    /\ pc' = "L135"
    /\ UNCHANGED <<ctrlVars, installed, action, status>>
    /\ UNCHANGED <<package_name, lastResult, waitsStarted, activeWaits, curOp, previousPackage, waitShown, cbVars, histVars, delVars>>

\* line 135: return True
WaitL135 ==
    /\ pc = "L135"
    /\ lastResult' = "True"
    /\ activeWaits' = activeWaits - 1
    /\ pc' = "idle"
    /\ UNCHANGED <<ctrlVars, installed, uiVars>>
    /\ UNCHANGED <<package_name, waitsStarted, curOp, previousPackage, waitShown, cbVars, histVars, delVars>>

WaiterStep ==
    \/ WaitL119 \/ WaitL120 \/ WaitL126 \/ WaitL127 \/ WaitL130
    \/ WaitL131 \/ WaitL132 \/ WaitL134 \/ WaitL135

(* --------------------------------------------- _retry_installation_check *)
\* the callback begins on the UI thread
BeginCallback(origin) ==
    /\ cbPc = "idle"
    /\ cbCount < MaxRetries
    /\ cbPc' = "L139"
    /\ cbOrigin' = origin
    /\ cbError' = "none"
    /\ cbResult' = "none"
    /\ cbSawUnset' = FALSE
    /\ cbCount' = cbCount + 1
    /\ cbShown' = 0
    /\ cbStillLogs' = 0
    /\ UNCHANGED cbPackage

\* the user activates the temporary action: it is dismissed and its callback runs
ClickRetry ==
    /\ action # NoAction
    /\ action.callback = RetryCallback
    /\ BeginCallback("prompt")
    /\ action' = NoAction
    /\ UNCHANGED <<ctrlVars, installed, status, waiterLog, waitVars, histVars, delVars>>

\* the callback is invoked by something other than a registered action, on a
\* controller that no wait has yet given a current_package_name
DirectRetry ==
    /\ delPc = "alive"
    /\ pc \notin {"unborn", "failed"}
    /\ current_package_name = Unset
    /\ BeginCallback("direct")
    /\ UNCHANGED <<ctrlVars, installed, uiVars, waitVars, histVars, delVars>>

\* line 139: self.logger.change_status("Checking for package installation...")
CbL139 ==
    /\ cbPc = "L139"
    /\ status' = "checking"
    /\ cbPc' = "L142"
    /\ UNCHANGED <<ctrlVars, installed, action, waiterLog, waitVars, histVars, delVars>>
    /\ UNCHANGED <<cbPackage, cbOrigin, cbError, cbResult, cbSawUnset, cbCount, cbShown, cbStillLogs>>

\* line 142: getattr(self, "current_package_name", "com.supercell.clashroyale")
\* (without the default, reading an unset attribute raises AttributeError; a
\* second variant ignores the attribute and always checks the default package)
PendingPackageNoDefault(attr) == IF attr = Unset THEN "AttributeError" ELSE attr
PendingPackageAlwaysDefault(attr) == DefaultPackage
PendingPackage(attr) == IF attr = Unset THEN DefaultPackage ELSE attr

CbL142 ==
    /\ cbPc = "L142"
    /\ cbSawUnset' = (current_package_name = Unset)
    /\ LET p == PendingPackage(current_package_name) IN
        IF p = "AttributeError"
        THEN /\ cbError' = "AttributeError"
             /\ cbPc' = "idle"
             /\ UNCHANGED cbPackage
        ELSE /\ cbPackage' = p
             /\ cbPc' = "L144"
             /\ UNCHANGED cbError
    /\ UNCHANGED <<ctrlVars, installed, uiVars, waitVars, histVars, delVars>>
    /\ UNCHANGED <<cbOrigin, cbResult, cbCount, cbShown, cbStillLogs>>

\* lines 104-115: _is_package_installed, NotImplementedError unless overridden
IsPackageInstalled(p) ==
    IF "_is_package_installed" \in implemented
    THEN IF p \in installed THEN "True" ELSE "False"
    ELSE "NotImplementedError"

\* line 144 / 148: if self._is_package_installed(package_name): ... else: ...
BranchAlwaysInstalled(r) == "L146"
Branch(r) == IF r = "True" THEN "L146" ELSE "L150"

CbL144 ==
    /\ cbPc = "L144"
    /\ LET r == IsPackageInstalled(cbPackage) IN
        /\ cbResult' = r
        /\ outcomes' = Append(outcomes, r)
        /\ observedTrue' = IF r = "True" THEN observedTrue \cup {cbPackage} ELSE observedTrue
        /\ IF r = "NotImplementedError"
           THEN /\ cbError' = r
                /\ cbPc' = "idle"
           ELSE /\ cbPc' = Branch(r)
                /\ UNCHANGED cbError
    /\ UNCHANGED <<ctrlVars, installed, uiVars, waitVars, clearedBy, delVars>>
    /\ UNCHANGED <<cbPackage, cbOrigin, cbSawUnset, cbCount, cbShown, cbStillLogs>>

\* line 146: self.installation_waiting = False
CbL146 ==
    /\ cbPc = "L146"
    /\ installation_waiting' = FALSE
    /\ clearedBy' = clearedBy \cup {cbPackage}
    /\ cbPc' = "L147"
    /\ UNCHANGED <<current_package_name, auto_stop_on_del, implemented, installed, uiVars>>
    /\ UNCHANGED <<waitVars, outcomes, observedTrue, delVars>>
    /\ UNCHANGED <<cbPackage, cbOrigin, cbError, cbResult, cbSawUnset, cbCount, cbShown, cbStillLogs>>

\* line 147: self.logger.change_status("Installation complete - continuing...")
\* (a variant that leaves the status as it is)
CbL147NoStatus ==
    /\ cbPc = "L147"
    /\ cbPc' = "idle"
    /\ UNCHANGED <<ctrlVars, installed, uiVars, waitVars, histVars, delVars>>
    /\ UNCHANGED <<cbPackage, cbOrigin, cbError, cbResult, cbSawUnset, cbCount, cbShown, cbStillLogs>>

CbL147 ==
    /\ cbPc = "L147"
    /\ status' = "complete"
    /\ cbPc' = "idle"
    /\ UNCHANGED <<ctrlVars, installed, action, waiterLog, waitVars, histVars, delVars>>
    /\ UNCHANGED <<cbPackage, cbOrigin, cbError, cbResult, cbSawUnset, cbCount, cbShown, cbStillLogs>>

\* lines 150-154: self.logger.show_temporary_action(...)
\* (variants: one that also clears the flag, one that registers nothing, one
\* that shows the prompt again by calling _wait_for_clash_installation, one
\* that gives up after the second retry)
CbL150ClearsFlag ==
    /\ cbPc = "L150"
    /\ installation_waiting' = FALSE
    /\ action' = TemporaryAction("still not found", cbPackage)
    /\ cbShown' = cbShown + 1
    /\ cbPc' = "L155"
    /\ UNCHANGED <<current_package_name, auto_stop_on_del, implemented, installed>>
    /\ UNCHANGED <<status, waiterLog, waitVars, histVars, delVars>>
    /\ UNCHANGED <<cbPackage, cbOrigin, cbError, cbResult, cbSawUnset, cbCount, cbStillLogs>>

CbL150NoReshow ==
    /\ cbPc = "L150"
    /\ cbPc' = "L155"
    /\ UNCHANGED <<ctrlVars, installed, uiVars, waitVars, histVars, delVars>>
    /\ UNCHANGED <<cbPackage, cbOrigin, cbError, cbResult, cbSawUnset, cbCount, cbShown, cbStillLogs>>

CbL150Reenters ==
    /\ cbPc = "L150"
    /\ activeWaits' = activeWaits + 1
    /\ current_package_name' = cbPackage
    /\ action' = TemporaryAction("not installed", cbPackage)
    /\ cbShown' = cbShown + 1
    /\ cbPc' = "in wait"
    /\ UNCHANGED <<installation_waiting, auto_stop_on_del, implemented, installed>>
    /\ UNCHANGED <<status, waiterLog, pc, package_name, lastResult, waitsStarted, histVars, delVars>>
    /\ UNCHANGED <<curOp, previousPackage, waitShown>>
    /\ UNCHANGED <<cbPackage, cbOrigin, cbError, cbResult, cbSawUnset, cbCount, cbStillLogs>>

CbL150GivesUp ==
    /\ cbPc = "L150"
    /\ IF cbCount >= 2
       THEN /\ installation_waiting' = FALSE
            /\ UNCHANGED <<action, cbShown>>
       ELSE /\ action' = TemporaryAction("still not found", cbPackage)
            /\ cbShown' = cbShown + 1
            /\ UNCHANGED installation_waiting
    /\ cbPc' = "L155"
    /\ UNCHANGED <<current_package_name, auto_stop_on_del, implemented, installed>>
    /\ UNCHANGED <<status, waiterLog, waitVars, histVars, delVars>>
    /\ UNCHANGED <<cbPackage, cbOrigin, cbError, cbResult, cbSawUnset, cbCount, cbStillLogs>>

CbL150 ==
    /\ cbPc = "L150"
    /\ action' = TemporaryAction("still not found", cbPackage)
    /\ cbShown' = cbShown + 1
    /\ cbPc' = "L155"
    /\ UNCHANGED <<ctrlVars, installed, status, waiterLog, waitVars, histVars, delVars>>
    /\ UNCHANGED <<cbPackage, cbOrigin, cbError, cbResult, cbSawUnset, cbCount, cbStillLogs>>

\* line 155: self.logger.log("[!] ... still not installed. Please try again.")
CbL155 ==
    /\ cbPc = "L155"
    /\ cbStillLogs' = cbStillLogs + 1
    /\ cbPc' = "idle"
    /\ UNCHANGED <<ctrlVars, installed, uiVars, waitVars, histVars, delVars>>
    /\ UNCHANGED <<cbPackage, cbOrigin, cbError, cbResult, cbSawUnset, cbCount, cbShown>>

CallbackStep ==
    \/ CbL139 \/ CbL142 \/ CbL144 \/ CbL146 \/ CbL147 \/ CbL150 \/ CbL155

(* --------------------------------------------------------------- __del__ *)
\* the last reference goes away: no call is running and no registered action
\* holds the bound method (an object whose __init__ raised is finalised too)
Release ==
    /\ delPc = "alive"
    /\ pc \in {"idle", "failed"}
    /\ cbPc = "idle"
    /\ action = NoAction
    /\ delPc' = "L33"
    /\ UNCHANGED <<ctrlVars, installed, uiVars, waitVars, cbVars, histVars, stopCalls, stopRaised, delOutcome>>

\* line 33: if getattr(self, "_auto_stop_on_del", True)
ShouldAutoStopDefaultFalse(v) == IF v = Unset THEN FALSE ELSE Truthy(v)
ShouldAutoStop(v) == IF v = Unset THEN TRUE ELSE Truthy(v)

DelL33 ==
    /\ delPc = "L33"
    /\ IF ShouldAutoStop(auto_stop_on_del)
       THEN /\ delPc' = "L34"
            /\ UNCHANGED delOutcome
       ELSE /\ delPc' = "done"
            /\ delOutcome' = "normal"
    /\ UNCHANGED <<ctrlVars, installed, uiVars, waitVars, cbVars, histVars, stopCalls, stopRaised>>

\* lines 62-66: stop(), NotImplementedError unless overridden; an overriding
\* backend stops the emulator or fails
StopResults == IF "stop" \in implemented THEN {"ok", "RuntimeError"} ELSE {"NotImplementedError"}

\* lines 35-36: except Exception: pass
CaughtOnlyNotImplemented(e) == e = "NotImplementedError"
Caught(e) == e \in StopErrors

\* line 34: self.stop(), inside the try
DelL34 ==
    /\ delPc = "L34"
    /\ stopCalls' = stopCalls + 1
    /\ delPc' = "done"
    /\ \E r \in StopResults :
        /\ stopRaised' = IF r = "ok" THEN "none" ELSE r
        /\ delOutcome' = IF r = "ok" \/ Caught(r) THEN "normal" ELSE r
    /\ UNCHANGED <<ctrlVars, installed, uiVars, waitVars, cbVars, histVars>>

DelStep == DelL33 \/ DelL34

(* --------------------------------------------------------- specification *)
Environment == \E p \in Packages : Install(p) \/ Uninstall(p) \/ Call(p)

Next == Environment \/ OpStep \/ WaiterStep \/ ClickRetry \/ CallbackStep \/ Release \/ DelStep

Spec == Init /\ [][Next]_vars

\* both threads keep running: a thread that can take a step takes it
SpecFair == Spec /\ WF_vars(WaiterStep) /\ WF_vars(CallbackStep)

\* the callback may also be invoked without a registered action; the destructor
\* plays no part in this, so the controller is one that is never released
InitDirect == Init /\ auto_stop_on_del = Unset /\ implemented = Overridable

NextDirect == Environment \/ Construct \/ WaiterStep \/ ClickRetry \/ CallbackStep \/ DirectRetry

SpecDirect == InitDirect /\ [][NextDirect]_vars

(* ---------------------------------------------------------------- claims *)
Blocked == pc \in {"L131", "L132"}
InWait == pc \in {"L119", "L120", "L126", "L127", "L130", "L131", "L132", "L134", "L135"}

\* C1: _wait_for_clash_installation(p) gets past its loop, and returns, only
\* after a retry callback of this wait has seen p installed and has cleared
\* installation_waiting; the flag is false while it returns, and what it
\* returns is True.
C1_ReturnsOnlyAfterCleared ==
    /\ pc \in {"L134", "L135"} =>
        /\ ~installation_waiting
        /\ package_name \in observedTrue
        /\ package_name \in clearedBy
    /\ lastResult # "none" =>
        /\ lastResult = "True"
        /\ package_name \in observedTrue
        /\ package_name \in clearedBy

C1_Witness ==
    /\ pc = "idle"
    /\ lastResult = "True"
    /\ waitsStarted = 2
    /\ ~installation_waiting

\* C2: whenever a retry callback started from the prompt of the wait in
\* progress finds the package installed, it clears installation_waiting and
\* the wait returns, with no further retry.
C2_InstalledRetryReleasesWait ==
    [](((cbPc = "L146") /\ InWait) => <>(lastResult = "True"))

\* the state after a retry callback found the package not installed: a waiter in
\* its loop still sees the flag true, has not left the loop and has not returned
C3_AfterNotInstalled ==
    (cbResult = "False" /\ InWait) =>
        /\ Blocked => installation_waiting
        /\ pc \notin {"L134", "L135"}
        /\ lastResult = "none"
        /\ current_package_name = package_name

\* C3: once a retry callback has found the package not installed, none of its
\* steps writes installation_waiting or current_package_name or moves the
\* waiting thread; after it has finished, a wait blocked in the loop still
\* has installation_waiting true and has not returned.
C3_NotInstalledLeavesWaitBlocked ==
    /\ []C3_AfterNotInstalled
    /\ [][(cbPc \in {"L150", "L155"} /\ cbPc' # cbPc) =>
            /\ installation_waiting' = installation_waiting
            /\ current_package_name' = current_package_name
            /\ pc' = pc]_vars

C3_Witness ==
    /\ cbPc = "idle"
    /\ cbResult = "False"
    /\ Blocked
    /\ installation_waiting

\* C4: a retry callback that found the package not installed has, when it
\* ends, registered exactly one temporary action, bound to
\* _retry_installation_check, and logged one "still not installed" line; a
\* callback that found it installed registers none.
C4_ReshowExactlyOnce ==
    /\ (cbPc = "idle" /\ cbResult = "False") =>
        /\ cbShown = 1
        /\ cbStillLogs = 1
        /\ InWait => action = TemporaryAction("still not found", cbPackage)
    /\ cbPc = "L155" =>
        /\ cbShown = 1
        /\ action.callback = RetryCallback
    /\ cbResult = "True" =>
        /\ cbShown = 0
        /\ cbStillLogs = 0

C4_Witness ==
    /\ cbPc = "idle"
    /\ cbResult = "False"
    /\ cbShown = 1
    /\ cbStillLogs = 1
    /\ action.callback = RetryCallback

\* C5: in a wait whose first retry found the package not installed and whose
\* second retry found it installed, the call returns True.
C5_ScenarioReturnsTrue ==
    [](((outcomes = <<"False", "True">>) /\ InWait) => <>(lastResult = "True"))

\* C6: once __del__ has run, stop() was called (once) exactly if
\* _auto_stop_on_del was unset or truthy; with the flag False it was not called.
C6_AutoStopUnlessOptedOut ==
    /\ stopCalls <= 1
    /\ delPc = "done" => (stopCalls = 1 <=> auto_stop_on_del \in {Unset, "True"})
    /\ auto_stop_on_del = "False" => stopCalls = 0

C6_Witness ==
    /\ delPc = "done"
    /\ auto_stop_on_del = "False"
    /\ stopCalls = 0

\* C7: whatever error stop() raises inside __del__, __del__ ends normally.
C7_TeardownErrorsSwallowed ==
    delPc = "done" => delOutcome = "normal"

C7_Witness ==
    /\ delPc = "done"
    /\ stopCalls = 1
    /\ stopRaised = "NotImplementedError"
    /\ delOutcome = "normal"

C9_DefaultPackageFallback ==
    cbSawUnset =>
        /\ cbError # "AttributeError"
        /\ cbPackage = DefaultPackage
        /\ cbPc \in {"L146", "L147"} => cbResult = "True"
        /\ cbPc \in {"L150", "L155"} => cbResult = "False"
        /\ cbResult \in {"True", "False"} => cbPc # "L144"

C9_Witness ==
    /\ cbSawUnset
    /\ cbOrigin = "direct"
    /\ cbPackage = DefaultPackage
    /\ cbPc = "L150"

\* C10: the wait gives its caller nothing but True: it never returns False and
\* never raises, whatever the retry callbacks' queries return or raise; an
\* exception that ends a callback leaves the waiting thread where it is.
C10_WaitNeverFails ==
    /\ [](lastResult \in {"none", "True"})
    /\ [][(InWait /\ pc' = "idle") => lastResult' = "True"]_vars
    /\ [][cbError' # cbError => pc' = pc]_vars

C10_Witness ==
    /\ cbError = "NotImplementedError"
    /\ Blocked
    /\ installation_waiting
    /\ lastResult = "none"
\* C11: however many retries in a row found the package not installed, the
\* wait is still in progress, a blocked waiter still sees installation_waiting
\* true, and a Retry action is registered for a further retry; the flag goes
\* from true to false only at line 146 of a callback whose query returned
\* True, and the loop is left only after that.
AllNotInstalled == \A i \in 1..Len(outcomes) : outcomes[i] = "False"

C11_AfterFailedRetries ==
    (InWait /\ pc \notin {"L119", "L120"} /\ cbPc = "idle" /\ AllNotInstalled) =>
        /\ action.callback = RetryCallback
        /\ pc \notin {"L134", "L135"}
        /\ Blocked => installation_waiting

C11_NoRetryLimit ==
    /\ []C11_AfterFailedRetries
    /\ [][(installation_waiting /\ ~installation_waiting') =>
            (cbPc = "L146" /\ cbResult = "True")]_vars
    /\ [][(pc = "L131" /\ pc' = "L134") =>
            (~installation_waiting /\ package_name \in clearedBy)]_vars

C11_Witness ==
    /\ Len(outcomes) = 3
    /\ AllNotInstalled
    /\ cbPc = "idle"
    /\ Blocked
    /\ installation_waiting
    /\ action.callback = RetryCallback

\* C12 as claimed: after the wait has returned, and until another wait starts,
\* the controller holds no pending package and installation_waiting is false.
C12_WaitStateDestroyed ==
    lastResult = "True" =>
        /\ current_package_name = Unset
        /\ ~installation_waiting

\* C12 as amended: after the wait has returned, and until another wait starts,
\* installation_waiting is false and current_package_name still holds the
\* package of the finished wait.
C12_FlagClearedPackageKept ==
    lastResult = "True" =>
        /\ current_package_name = package_name
        /\ ~installation_waiting

C12_Witness ==
    /\ lastResult = "True"
    /\ pc = "idle"
    /\ current_package_name = "com.example.app"
    /\ ~installation_waiting

\* C13 as claimed: once a controller has been constructed, no interface
\* operation called on it fails as unimplemented.
C13_UnimplementedFailsAtConstruction ==
    /\ pc # "opRaised"
    /\ stopRaised # "NotImplementedError"
    /\ cbError # "NotImplementedError"

\* C13 as amended: construction fails with NotImplementedError only for a
\* backend that does not override __init__; a backend that leaves an interface
\* operation out is constructed all the same, and that operation raises
\* NotImplementedError when it is called, while an overridden one returns.
C13_UnimplementedFailsWhenCalled ==
    /\ pc = "failed" => "__init__" \notin implemented
    /\ pc \notin {"unborn", "failed"} => "__init__" \in implemented
    /\ pc = "opRaised" => curOp \notin implemented
    /\ pc = "opReturned" => curOp \in implemented
    /\ stopRaised = "NotImplementedError" => "stop" \notin implemented
    /\ cbError = "NotImplementedError" => "_is_package_installed" \notin implemented

C13_Witness ==
    /\ pc = "opRaised"
    /\ curOp = "start"
    /\ "__init__" \in implemented

\* C14: the wait records the package, then registers the Retry action, then
\* logs its two lines, then sets installation_waiting and only then polls; the
\* confirmation line is logged once, after the flag was seen false and before
\* the return.
TwoLines == <<"not installed", "please install">>

C14_StepOrder ==
    /\ pc = "L119" => (waitShown = 0 /\ waiterLog = <<>>)
    /\ pc = "L120" => (current_package_name = package_name /\ waitShown = 0 /\ waiterLog = <<>>)
    /\ pc = "L126" => (waitShown = 1 /\ waiterLog = <<>>)
    /\ pc = "L127" => (waitShown = 1 /\ waiterLog = <<"not installed">>)
    /\ pc = "L130" => (waitShown = 1 /\ waiterLog = TwoLines)
    /\ pc \in {"L119", "L120", "L126", "L127", "L130"} => ~installation_waiting
    /\ Blocked => (waitShown = 1 /\ waiterLog = TwoLines)
    /\ pc = "L134" => (waiterLog = TwoLines /\ ~installation_waiting)
    /\ (pc = "L135" \/ lastResult = "True") =>
        (waitShown = 1 /\ waiterLog = Append(TwoLines, "confirmed"))

C14_Witness ==
    /\ lastResult = "True"
    /\ waitShown = 1
    /\ waiterLog = <<"not installed", "please install", "confirmed">>

\* C15: a retry callback shows "checking" before it queries; when the query
\* returns True it clears the flag first and shows "complete" after, which is
\* then the last status; when the query returns False the status stays
\* "checking".
C15_StatusInCallback ==
    /\ cbPc \in {"L142", "L144", "L146", "L147", "L150", "L155"} => status = "checking"
    /\ (cbPc = "idle" /\ cbResult = "True") => status = "complete"
    /\ (cbPc = "idle" /\ cbResult = "False") => status = "checking"

C15_StatusOrder ==
    /\ []C15_StatusInCallback
    /\ [][(cbPc = "L146" /\ cbPc' # cbPc) =>
            (cbPc' = "L147" /\ ~installation_waiting' /\ status' = "checking")]_vars
    /\ [][(cbPc = "L147" /\ cbPc' # cbPc) =>
            (status' = "complete" /\ installation_waiting' = installation_waiting)]_vars

C15_Witness ==
    /\ cbPc = "idle"
    /\ cbResult = "True"
    /\ status = "complete"
    /\ lastResult = "True"

\* C16: whenever the waiter is blocked in its loop with installation_waiting
\* true and no retry callback is running, a Retry action is registered.
C16_BlockedWaitHasPrompt ==
    (Blocked /\ installation_waiting /\ cbPc = "idle") => action.callback = RetryCallback

\* C17: a retry callback started from a registered action never finds
\* current_package_name unset: whenever an action is registered, and whenever
\* such a callback runs, the attribute is set, so line 142 never falls back to
\* the default.
C17_PromptCallbacksSeePackage ==
    /\ action # NoAction => current_package_name # Unset
    /\ cbOrigin = "prompt" =>
        /\ current_package_name # Unset
        /\ ~cbSawUnset
    /\ (cbOrigin = "prompt" /\ cbPc \in {"L144", "L146", "L150"} /\ InWait) =>
        cbPackage = current_package_name

C17_Witness ==
    /\ cbOrigin = "prompt"
    /\ cbPc = "L144"
    /\ ~cbSawUnset
    /\ cbPackage = "com.example.app"

\* C18: during a wait, a retry callback queries, and clears the flag for, the
\* package of that wait, also when an earlier wait was for another package; a
\* later wait gets past its loop only after its own package was seen
\* installed.
C18_QueriesCurrentPackage ==
    /\ (InWait /\ cbPc \in {"L144", "L146", "L150"}) => cbPackage = package_name
    /\ (waitsStarted >= 2 /\ pc \in {"L134", "L135"}) =>
        (package_name \in observedTrue /\ package_name \in clearedBy)
    /\ (waitsStarted >= 2 /\ InWait /\ package_name \notin observedTrue) =>
        (pc \notin {"L134", "L135"} /\ package_name \notin clearedBy)

C18_Witness ==
    /\ waitsStarted = 2
    /\ previousPackage \in Packages
    /\ previousPackage # package_name
    /\ previousPackage \in installed
    /\ package_name \notin installed
    /\ cbPc = "L150"
    /\ Blocked
====
